---- MODULE Spec2Model ----
(***************************************************************************)
(* Model of the mountain-pass service: the connection manager              *)
(* (DatabaseManager) and the pass repository (MountainPassDAO) of          *)
(* src/database.py, with the request/response mapping of src/main.py.      *)
(*                                                                         *)
(* The four tables are the state.  A request arrives (Call), the handler   *)
(* runs as one step (one action per repository method), and the response   *)
(* is consumed (Return).  The endpoints are coroutines that call the       *)
(* blocking repository methods without awaiting inside them, and there is  *)
(* one shared connection, so handlers do not interleave; what a handler    *)
(* wrote before it commits is in its transaction only.                     *)
(*                                                                         *)
(* Python values: a dict is a function whose DOMAIN is its key set, so     *)
(* `k in d` is k \in DOMAIN d.  A scalar None / SQL NULL is the string     *)
(* None.  An Optional dict or list is a sequence of length <= 1: <<>> is   *)
(* None and <<x>> is x.                                                    *)
(***************************************************************************)
EXTENDS Integers, Sequences, FiniteSets, TLC

VARIABLES
    users,              \* table users: row id = index
    mountain_passes,    \* table mountain_passes: row id = index
    difficulty_levels,  \* table difficulty_levels: set of rows
    images,             \* table images: rows in insertion order
    connection,         \* DatabaseManager._connection: "none", "open", "closed"
    pc,                 \* "idle", "called" (request accepted), "done" (handler returned)
    request,            \* the call being served
    result,             \* what the handler gave back to its caller
    fault               \* the persistence failure that hit the handler, if any

vars == <<users, mountain_passes, difficulty_levels, images, connection,
          pc, request, result, fault>>

-----------------------------------------------------------------------------
(* Bounds *)

MaxPasses == 2
MaxImages == 1
MaxTime == 2

-----------------------------------------------------------------------------
(* Python / SQL values *)

None == "None"
NoneObj == <<>>
Some(x) == <<x>>
IsNone(v) == v = <<>>
Val(v) == v[1]

\* dict.get(k, default)
Get(d, k, default) == IF k \in DOMAIN d THEN d[k] ELSE default

\* truthiness of a str-or-None value
Truthy(v) == v # None /\ v # ""

\* `old_value if old_value is not None else ''`
NoneToEmpty(v) == IF v = None THEN "" ELSE v

Range(s) == {s[i] : i \in DOMAIN s}

DB == [users |-> users, mountain_passes |-> mountain_passes,
       difficulty_levels |-> difficulty_levels, images |-> images]

-----------------------------------------------------------------------------
(* Persistence failures.  Any statement sent through the connection may    *)
(* raise; lost = TRUE means the connection died with it (it is then        *)
(* closed, and rollback() on it raises too).                               *)

(* Fault points are named after the statement: "autocommit" is the        *)
(* assignment connection.autocommit = False, which the driver may refuse.  *)

NoFault == [at |-> "none", lost |-> FALSE]
Errors(points) == [at : points, lost : {FALSE}]
Losses(points) == [at : points, lost : {TRUE}]

-----------------------------------------------------------------------------
(* DatabaseManager.get_connection: the held connection is returned if it   *)
(* is open; otherwise psycopg2.connect is tried, and its failure is raised *)
(* as DatabaseConnectionError with _connection left as it was.             *)

NeedsConnect(conn) == conn = "none" \/ conn = "closed"

\* connects whatever is held
get_connection_always_connects(conn, connectOk) ==
    IF connectOk
    THEN [connection |-> "open", raised |-> FALSE, opened |-> TRUE]
    ELSE [connection |-> conn, raised |-> TRUE, opened |-> FALSE]

get_connection(conn, connectOk) ==
    IF ~NeedsConnect(conn)
    THEN [connection |-> conn, raised |-> FALSE, opened |-> FALSE]
    ELSE IF connectOk
         THEN [connection |-> "open", raised |-> FALSE, opened |-> TRUE]
         ELSE [connection |-> conn, raised |-> TRUE, opened |-> FALSE]

\* DatabaseManager.close_connection
close_connection(conn) == IF conn = "open" THEN "none" ELSE conn

-----------------------------------------------------------------------------
(* Statement execution inside a handler's try block.  st is the state of   *)
(* the running handler: the database as the open transaction sees it, and  *)
(* whether an exception has been raised (after which nothing executes).    *)

Begin(db) == [db |-> db, exc |-> FALSE, lost |-> FALSE, hit |-> FALSE]

\* cursor.execute / commit / autocommit at fault point `point`, with
\* effect `after` on the database when it does not raise
Exec(st, point, f, after) ==
    IF st.exc THEN st
    ELSE IF f.at = point
         THEN [st EXCEPT !.exc = TRUE, !.lost = f.lost, !.hit = TRUE]
         ELSE [st EXCEPT !.db = after]

\* a Python exception (KeyError, TypeError) raised by the handler itself
Raise(st) == [st EXCEPT !.exc = TRUE]

\* connection.rollback(): the open transaction's writes are discarded
RollbackKeepsWrites(committed, working) == working

Rollback(committed, working) == committed

-----------------------------------------------------------------------------
(* MountainPassDAO._get_or_create_user *)

\* SELECT id FROM users WHERE email = %s OR phone = %s
UserMatchesEmailOnly(rows, user_data) ==
    {i \in DOMAIN rows : rows[i].email = Get(user_data, "email", "")}

UserMatches(rows, user_data) ==
    {i \in DOMAIN rows : \/ rows[i].email = Get(user_data, "email", "")
                         \/ rows[i].phone = Get(user_data, "phone", "")}

\* LIMIT 1 without ORDER BY: any matching row; 0 when there is none
UserPicks(rows, user_data) ==
    IF UserMatches(rows, user_data) = {} THEN {0} ELSE UserMatches(rows, user_data)

UserRow(user_data) ==
    [email |-> Get(user_data, "email", ""),
     phone |-> Get(user_data, "phone", ""),
     fam   |-> user_data["fam"],
     name  |-> user_data["name"],
     otc   |-> Get(user_data, "otc", "")]

\* the id of the last row stored before the INSERT, not the inserted row's
get_or_create_user_stale_id(st, user_data, pick, f) ==
    LET s1 == Exec(st, "select_user", f, st.db)
    IN  IF s1.exc THEN [st |-> s1, user_id |-> 0]
        ELSE IF pick # 0 THEN [st |-> s1, user_id |-> pick]
        ELSE [st |-> Exec(s1, "insert_user", f,
                          [s1.db EXCEPT !.users = Append(@, UserRow(user_data))]),
              user_id |-> Len(s1.db.users)]

\* the found row is rewritten with the submitted fields
get_or_create_user_overwrites(st, user_data, pick, f) ==
    LET s1 == Exec(st, "select_user", f, st.db)
    IN  IF s1.exc THEN [st |-> s1, user_id |-> 0]
        ELSE IF ~({"fam", "name"} \subseteq DOMAIN user_data)
             THEN [st |-> Raise(s1), user_id |-> 0]
        ELSE IF pick # 0
             THEN [st |-> [s1 EXCEPT !.db.users[pick] = UserRow(user_data)],
                   user_id |-> pick]
        ELSE [st |-> Exec(s1, "insert_user", f,
                          [s1.db EXCEPT !.users = Append(@, UserRow(user_data))]),
              user_id |-> Len(s1.db.users) + 1]

get_or_create_user(st, user_data, pick, f) ==
    LET s1 == Exec(st, "select_user", f, st.db)
    IN  IF s1.exc THEN [st |-> s1, user_id |-> 0]
        ELSE IF pick # 0 THEN [st |-> s1, user_id |-> pick]
        ELSE IF ~({"fam", "name"} \subseteq DOMAIN user_data)
             THEN [st |-> Raise(s1), user_id |-> 0]
        ELSE [st |-> Exec(s1, "insert_user", f,
                          [s1.db EXCEPT !.users = Append(@, UserRow(user_data))]),
              user_id |-> Len(s1.db.users) + 1]

-----------------------------------------------------------------------------
(* MountainPassDAO._add_difficulty_levels and _add_images *)

seasons == <<"winter", "summer", "autumn", "spring">>

\* the seasons the loop inserts: present in the dict with a truthy grade
InsertedSeasons(level_data) ==
    {s \in Range(seasons) : s \in DOMAIN level_data /\ Truthy(level_data[s])}

\* INSERT ... ON CONFLICT (pass_id, season) DO UPDATE SET level = EXCLUDED.level
UpsertLevels(rows, pass_id, level_data) ==
    LET S == InsertedSeasons(level_data)
    IN  {r \in rows : ~(r.pass_id = pass_id /\ r.season \in S)}
        \cup {[pass_id |-> pass_id, season |-> s, level |-> level_data[s]] : s \in S}

add_difficulty_levels(st, pass_id, level, f) ==
    IF st.exc THEN st
    ELSE IF IsNone(level) THEN Raise(st)   \* `season in None`: TypeError
    ELSE IF InsertedSeasons(Val(level)) = {} THEN st
    ELSE Exec(st, "levels", f,
              [st.db EXCEPT !.difficulty_levels = UpsertLevels(@, pass_id, Val(level))])

ImageRow(pass_id, img) ==
    [pass_id |-> pass_id, title |-> Get(img, "title", ""), img_url |-> Get(img, "url", "")]

ImageRows(pass_id, imgs) == [i \in DOMAIN imgs |-> ImageRow(pass_id, imgs[i])]

add_images(st, pass_id, imgs, f) ==
    IF st.exc THEN st
    ELSE IF IsNone(imgs) THEN Raise(st)    \* `for img in None`: TypeError
    ELSE IF Val(imgs) = <<>> THEN st
    ELSE Exec(st, "images", f,
              [st.db EXCEPT !.images = @ \o ImageRows(pass_id, Val(imgs))])

-----------------------------------------------------------------------------
(* MountainPassDAO.add_mountain_pass, the try block (lines 82-125) *)

StatusFromInput(pass_data) == Get(pass_data, "status", "new")

NewStatus(pass_data) == "new"

PassRow(pass_data, user_id, now) ==
    [beauty_title |-> Get(pass_data, "beautyTitle", ""),
     title        |-> pass_data["title"],
     other_titles |-> Get(pass_data, "other_titles", ""),
     connect      |-> Get(pass_data, "connect", ""),
     user_id      |-> user_id,
     latitude     |-> pass_data["coords"]["latitude"],
     longitude    |-> pass_data["coords"]["longitude"],
     height       |-> pass_data["coords"]["height"],
     add_time     |-> now,
     status       |-> NewStatus(pass_data)]

add_mountain_pass(db, pass_data, now, pick, f) ==
    LET s0 == Exec(Begin(db), "autocommit", f, db)
        s1 == IF s0.exc THEN [st |-> s0, user_id |-> 0]
              ELSE IF "user" \notin DOMAIN pass_data THEN [st |-> Raise(s0), user_id |-> 0]
              ELSE get_or_create_user(s0, pass_data["user"], pick, f)
        pass_id == Len(db.mountain_passes) + 1
        s2 == IF s1.st.exc THEN s1.st
              ELSE IF ~({"title", "coords"} \subseteq DOMAIN pass_data) THEN Raise(s1.st)
              ELSE Exec(s1.st, "insert_pass", f,
                        [s1.st.db EXCEPT !.mountain_passes =
                            Append(@, PassRow(pass_data, s1.user_id, now))])
        s3 == IF "level" \in DOMAIN pass_data
              THEN add_difficulty_levels(s2, pass_id, pass_data["level"], f)
              ELSE s2
        s4 == IF "images" \in DOMAIN pass_data
              THEN add_images(s3, pass_id, pass_data["images"], f)
              ELSE s3
        s5 == Exec(s4, "commit", f, s4.db)
    IN  [st |-> s5, pass_id |-> pass_id]

-----------------------------------------------------------------------------
(* The denormalized record built by get_pass_by_id (lines 245-270) and     *)
(* get_passes_by_user_email (lines 457-482).                               *)

\* {l['season']: l['level'] for l in levels}
LevelDict(rows, pass_id) ==
    [s \in {r.season : r \in {x \in rows : x.pass_id = pass_id}} |->
        (CHOOSE r \in rows : r.pass_id = pass_id /\ r.season = s).level]

\* the WHERE clause left out
IsImageOfAny(pass_id, row) == TRUE

IsImageOf(pass_id, row) == row.pass_id = pass_id

\* SELECT title, img_url FROM images WHERE pass_id = %s
ImagesOf(rows, pass_id) ==
    LET mine == SelectSeq(rows, LAMBDA r : IsImageOf(pass_id, r))
    IN  [i \in DOMAIN mine |-> [title |-> mine[i].title, url |-> mine[i].img_url]]

PassInfo(db, pass_id) ==
    LET mp == db.mountain_passes[pass_id]
        u  == db.users[mp.user_id]
    IN  [id           |-> pass_id,
         beauty_title |-> mp.beauty_title,
         title        |-> mp.title,
         other_titles |-> mp.other_titles,
         connect      |-> mp.connect,
         user         |-> [email |-> u.email, phone |-> u.phone, fam |-> u.fam,
                           name |-> u.name, otc |-> u.otc],
         coords       |-> [latitude |-> mp.latitude, longitude |-> mp.longitude,
                           height |-> mp.height],
         status       |-> mp.status,
         add_time     |-> mp.add_time,
         level        |-> LevelDict(db.difficulty_levels, pass_id),
         images       |-> ImagesOf(db.images, pass_id)]

\* FROM mountain_passes mp JOIN users u ON mp.user_id = u.id WHERE mp.id = %s
PassExists(db, pass_id) ==
    /\ pass_id \in DOMAIN db.mountain_passes
    /\ db.mountain_passes[pass_id].user_id \in DOMAIN db.users

-----------------------------------------------------------------------------
(* MountainPassDAO.get_pass_by_id, the try block (lines 205-276) *)

get_pass_by_id(db, pass_id, f) ==
    LET s0 == Exec(Begin(db), "select_pass", f, db)
        s1 == IF s0.exc \/ ~PassExists(db, pass_id) THEN s0
              ELSE Exec(s0, "select_levels", f, db)
        s2 == IF s0.exc \/ ~PassExists(db, pass_id) THEN s1
              ELSE Exec(s1, "select_images", f, db)
    IN  [st  |-> s2,
         ret |-> IF s2.exc \/ ~PassExists(db, pass_id) THEN NoneObj
                 ELSE Some(PassInfo(db, pass_id))]

-----------------------------------------------------------------------------
(* MountainPassDAO.update_mountain_pass, the try block (lines 295-396) *)

protected_fields == <<"email", "phone", "fam", "name", "otc">>

FieldChanged(existing_user, new_user, field) ==
    NoneToEmpty(Get(existing_user, field, None)) # NoneToEmpty(Get(new_user, field, None))

\* the protected fields whose value differs, in the order of protected_fields
ChangedFields(existing_user, new_user) ==
    SelectSeq(protected_fields, LAMBDA fld : FieldChanged(existing_user, new_user, fld))

Message(kind, status, fields) == [kind |-> kind, status |-> status, fields |-> fields]

Reply(state, message) == Some([state |-> state, message |-> message])

\* add_time among the columns SET
UpdatedRowRestamped(row, pass_data) ==
    [row EXCEPT !.beauty_title = Get(pass_data, "beautyTitle", ""),
                !.title        = pass_data["title"],
                !.other_titles = Get(pass_data, "other_titles", ""),
                !.connect      = Get(pass_data, "connect", ""),
                !.latitude     = pass_data["coords"]["latitude"],
                !.longitude    = pass_data["coords"]["longitude"],
                !.height       = pass_data["coords"]["height"],
                !.add_time     = 0]

\* UPDATE mountain_passes SET ... WHERE id = %s (user_id, add_time, status kept)
UpdatedRow(row, pass_data) ==
    [row EXCEPT !.beauty_title = Get(pass_data, "beautyTitle", ""),
                !.title        = pass_data["title"],
                !.other_titles = Get(pass_data, "other_titles", ""),
                !.connect      = Get(pass_data, "connect", ""),
                !.latitude     = pass_data["coords"]["latitude"],
                !.longitude    = pass_data["coords"]["longitude"],
                !.height       = pass_data["coords"]["height"]]

\* DELETE FROM difficulty_levels WHERE pass_id = %s
DeleteLevelsNone(rows, pass_id) == rows

DeleteLevels(rows, pass_id) == {r \in rows : r.pass_id # pass_id}

\* DELETE FROM images WHERE pass_id = %s
DeleteImages(rows, pass_id) == SelectSeq(rows, LAMBDA r : ~IsImageOf(pass_id, r))

\* the status check of line 312
EditableAlways(status) == TRUE

Editable(status) == status = "new"

\* the protected-field check of line 345
UserChangedNever(existing_user, new_user) == FALSE

UserChanged(existing_user, new_user) == ChangedFields(existing_user, new_user) # <<>>

update_mountain_pass(db, pass_id, pass_data, f) ==
    LET s0 == Exec(Begin(db), "select_pass", f, db)
        found == pass_id \in DOMAIN db.mountain_passes
        existing_pass == db.mountain_passes[pass_id]
        s1 == Exec(s0, "autocommit", f, db)
        checksUser == "user" \in DOMAIN pass_data
        s2 == IF checksUser THEN Exec(s1, "select_user", f, db) ELSE s1
        existing_user == db.users[existing_pass.user_id]
        s3 == IF s2.exc THEN s2
              ELSE IF ~({"title", "coords"} \subseteq DOMAIN pass_data) THEN Raise(s2)
              ELSE Exec(s2, "update_pass", f,
                        [db EXCEPT !.mountain_passes[pass_id] = UpdatedRow(@, pass_data)])
        s4 == IF "level" \in DOMAIN pass_data
              THEN add_difficulty_levels(
                     Exec(s3, "delete_levels", f,
                          [s3.db EXCEPT !.difficulty_levels = DeleteLevels(@, pass_id)]),
                     pass_id, pass_data["level"], f)
              ELSE s3
        s5 == IF "images" \in DOMAIN pass_data
              THEN add_images(
                     Exec(s4, "delete_images", f,
                          [s4.db EXCEPT !.images = DeleteImages(@, pass_id)]),
                     pass_id, pass_data["images"], f)
              ELSE s4
        s6 == Exec(s5, "commit", f, s5.db)
    IN  IF s0.exc THEN [st |-> s0, early |-> FALSE, ret |-> NoneObj]
        ELSE IF ~found
             THEN [st |-> s0, early |-> TRUE,
                   ret |-> Reply(0, Message("not_found", "", <<>>))]
        ELSE IF ~Editable(existing_pass.status)
             THEN [st |-> s0, early |-> TRUE,
                   ret |-> Reply(0, Message("status", existing_pass.status, <<>>))]
        ELSE IF s2.exc THEN [st |-> s2, early |-> FALSE, ret |-> NoneObj]
        ELSE IF checksUser /\ UserChanged(existing_user, pass_data["user"])
             THEN [st |-> s2, early |-> TRUE,
                   ret |-> Reply(0, Message("protected", "",
                                  ChangedFields(existing_user, pass_data["user"])))]
        ELSE [st |-> s6, early |-> FALSE,
              ret |-> Reply(1, Message("updated", "", <<>>))]

-----------------------------------------------------------------------------
(* MountainPassDAO.get_passes_by_user_email, the try block (lines 418-485) *)

\* ... JOIN users u ON mp.user_id = u.id WHERE u.email = %s
OwnedBy(db, email) ==
    {i \in DOMAIN db.mountain_passes :
        /\ db.mountain_passes[i].user_id \in DOMAIN db.users
        /\ db.users[db.mountain_passes[i].user_id].email = email}

Perms(S) ==
    {p \in [1..Cardinality(S) -> S] : \A i, j \in DOMAIN p : i # j => p[i] # p[j]}

\* ORDER BY mp.add_time DESC: rows with equal add_time come in any order
OrderedById(rows, p) == \A i, j \in DOMAIN p : i < j => p[i] < p[j]

OrderedByAddTimeDesc(rows, p) ==
    \A i, j \in DOMAIN p : i < j => rows[p[i]].add_time >= rows[p[j]].add_time

Orders(db, email) ==
    {p \in Perms(OwnedBy(db, email)) : OrderedByAddTimeDesc(db.mountain_passes, p)}

get_passes_by_user_email(db, email, order, f) ==
    LET s0 == Exec(Begin(db), "select_pass", f, db)
        s1 == IF order = <<>> THEN s0 ELSE Exec(s0, "select_levels", f, db)
        s2 == IF order = <<>> THEN s1 ELSE Exec(s1, "select_images", f, db)
    IN  [st  |-> s2,
         ret |-> IF s2.exc THEN <<>>
                 ELSE [i \in DOMAIN order |-> PassInfo(db, order[i])]]

-----------------------------------------------------------------------------
(* Requests, results *)

Req(op, pass_id, pass_data, email) ==
    [op |-> op, pass_id |-> pass_id, pass_data |-> pass_data, email |-> email]

NoRequest == Req("none", 0, <<>>, "")

\* exc: the exception that left the method ("" when it returned); ret: what it returned
Returned(ret) == [exc |-> "", ret |-> ret]
Raised(exc) == [exc |-> exc, ret |-> NoneObj]
NoResult == [exc |-> "none", ret |-> NoneObj]

SetDB(db) ==
    /\ users' = db.users
    /\ mountain_passes' = db.mountain_passes
    /\ difficulty_levels' = db.difficulty_levels
    /\ images' = db.images

tables == <<users, mountain_passes, difficulty_levels, images>>

\* the fault f is one the run met (or none was injected)
Met(f, st) == f = NoFault \/ st.hit

Init ==
    /\ users = <<>>
    /\ mountain_passes = <<>>
    /\ difficulty_levels = {}
    /\ images = <<>>
    /\ connection = "none"
    /\ pc = "idle"
    /\ request = NoRequest
    /\ result = NoResult
    /\ fault = NoFault

-----------------------------------------------------------------------------
(* Actions.  P holds the input sets of a specification: creates, updates   *)
(* (pass_data dicts), emails, times (values of datetime.now()), faults,    *)
(* statuses (those a moderator sets).                                      *)

\* a request reaches the repository
Call(P) ==
    /\ pc = "idle"
    /\ \/ /\ Len(mountain_passes) < MaxPasses
          /\ \E d \in P.creates : request' = Req("create", 0, d, "")
       \/ \E id \in 1..(Len(mountain_passes) + 1), d \in P.updates :
              request' = Req("update", id, d, "")
       \/ \E id \in 1..(Len(mountain_passes) + 1) : request' = Req("read", id, <<>>, "")
       \/ \E e \in P.emails : request' = Req("list", 0, <<>>, e)
    /\ pc' = "called"
    /\ UNCHANGED <<tables, connection, result, fault>>

\* get_connection() raises on the first line of any repository method
ConnectionFailed ==
    /\ pc = "called"
    /\ get_connection(connection, FALSE).raised
    /\ result' = Raised("DatabaseConnectionError")
    /\ connection' = get_connection(connection, FALSE).connection
    /\ fault' = [at |-> "connect", lost |-> FALSE]
    /\ pc' = "done"
    /\ UNCHANGED <<tables, request>>

\* the except block of add_mountain_pass / update_mountain_pass:
\* connection.rollback(), then the sentinel
ExceptRollback(st, sentinel) ==
    /\ SetDB(Rollback(DB, st.db))
    /\ result' = IF st.lost THEN Raised("InterfaceError") ELSE Returned(sentinel)

AddMountainPass(P) ==
    /\ pc = "called" /\ request.op = "create"
    /\ \E f \in P.faults \cup {NoFault}, now \in P.times,
          pick \in UserPicks(users, Get(request.pass_data, "user", <<>>)) :
          LET r == add_mountain_pass(DB, request.pass_data, now, pick, f)
          IN  /\ Met(f, r.st)
              /\ IF r.st.exc
                 THEN ExceptRollback(r.st, NoneObj)
                 ELSE /\ SetDB(r.st.db)
                      /\ result' = Returned(Some(r.pass_id))
              /\ connection' = IF r.st.lost THEN "closed"
                               ELSE get_connection(connection, TRUE).connection
              /\ fault' = f
    /\ pc' = "done"
    /\ UNCHANGED request

GetPassById(P) ==
    /\ pc = "called" /\ request.op = "read"
    /\ \E f \in P.faults \cup {NoFault} :
          LET r == get_pass_by_id(DB, request.pass_id, f)
          IN  /\ Met(f, r.st)
              /\ result' = Returned(r.ret)
              /\ connection' = IF r.st.lost THEN "closed"
                               ELSE get_connection(connection, TRUE).connection
              /\ fault' = f
    /\ pc' = "done"
    /\ UNCHANGED <<tables, request>>

UpdateMountainPass(P) ==
    /\ pc = "called" /\ request.op = "update"
    /\ \E f \in P.faults \cup {NoFault} :
          LET r == update_mountain_pass(DB, request.pass_id, request.pass_data, f)
          IN  /\ Met(f, r.st)
              /\ IF r.st.exc
                 THEN ExceptRollback(r.st, Val(Reply(0, Message("error", "", <<>>))))
                 ELSE /\ SetDB(IF r.early THEN DB ELSE r.st.db)
                      /\ result' = Returned(Val(r.ret))
              /\ connection' = IF r.st.lost THEN "closed"
                               ELSE get_connection(connection, TRUE).connection
              /\ fault' = f
    /\ pc' = "done"
    /\ UNCHANGED request

GetPassesByUserEmail(P) ==
    /\ pc = "called" /\ request.op = "list"
    /\ \E f \in P.faults \cup {NoFault}, order \in Orders(DB, request.email) :
          LET r == get_passes_by_user_email(DB, request.email, order, f)
          IN  /\ Met(f, r.st)
              /\ result' = Returned(r.ret)
              /\ connection' = IF r.st.lost THEN "closed"
                               ELSE get_connection(connection, TRUE).connection
              /\ fault' = f
    /\ pc' = "done"
    /\ UNCHANGED <<tables, request>>

\* the caller takes the response
Return ==
    /\ pc = "done"
    /\ pc' = "idle"
    /\ request' = NoRequest
    /\ result' = NoResult
    /\ fault' = NoFault
    /\ UNCHANGED <<tables, connection>>

\* moderation, outside this service: a pass's status is set to another one
Moderate(P) ==
    /\ pc = "idle"
    /\ \E id \in DOMAIN mountain_passes, s \in P.statuses :
          /\ mountain_passes[id].status # s
          /\ mountain_passes' = [mountain_passes EXCEPT ![id].status = s]
    /\ UNCHANGED <<users, difficulty_levels, images, connection, pc, request, result, fault>>

\* DatabaseManager.get_connection, called on its own: what it returned is
\* the connection now held, with whether psycopg2.connect made it in this call
GetConnection ==
    /\ pc = "idle"
    /\ \E connectOk \in BOOLEAN :
          LET r == get_connection(connection, connectOk)
          IN  /\ connectOk \/ r.raised      \* connect is not tried, or it fails
              /\ connection' = r.connection
              /\ result' = IF r.raised THEN Raised("DatabaseConnectionError")
                            ELSE Returned(Some([connection |-> r.connection,
                                                opened |-> r.opened]))
              /\ fault' = IF r.raised THEN [at |-> "connect", lost |-> FALSE] ELSE NoFault
    /\ request' = Req("get_connection", 0, <<>>, "")
    /\ pc' = "done"
    /\ UNCHANGED tables

\* DatabaseManager.close_connection, called on its own
CloseConnection ==
    /\ pc = "idle"
    /\ connection' = close_connection(connection)
    /\ request' = Req("close_connection", 0, <<>>, "")
    /\ result' = Returned(NoneObj)
    /\ pc' = "done"
    /\ UNCHANGED <<tables, fault>>

\* the service alone
Serve(P) ==
    \/ Call(P)
    \/ ConnectionFailed
    \/ AddMountainPass(P)
    \/ GetPassById(P)
    \/ UpdateMountainPass(P)
    \/ GetPassesByUserEmail(P)
    \/ Return

\* the service and the moderators
Step(P) == Serve(P) \/ Moderate(P)

-----------------------------------------------------------------------------
(* src/main.py: what the endpoints answer *)

\* submit_data: 201 with the id and status "new", or 500
submit_data(res) ==
    IF res.exc # "" \/ IsNone(res.ret)
    THEN [http |-> 500, id |-> 0, status |-> ""]
    ELSE [http |-> 201, id |-> Val(res.ret), status |-> "new"]

\* get_mountain_pass: 200 with the record, 404 when the repository gave None,
\* 500 when it raised
get_mountain_pass(res) ==
    IF res.exc # "" THEN [http |-> 500, body |-> NoneObj]
    ELSE IF IsNone(res.ret) THEN [http |-> 404, body |-> NoneObj]
    ELSE [http |-> 200, body |-> res.ret]

-----------------------------------------------------------------------------
(* Input values *)

Emails == {"a@x", "b@x"}
Phones == {"+1", "+2"}

User(email, phone, fam, name, otc) ==
    [email |-> email, phone |-> phone, fam |-> fam, name |-> name, otc |-> otc]

Coords1 == [latitude |-> 45, longitude |-> 7, height |-> 4808]
Coords2 == [latitude |-> -33, longitude |-> -70, height |-> 0]

\* Level.model_dump(): every season is a key, unset ones are None
Level1 == [winter |-> "1A", summer |-> None, autumn |-> None, spring |-> "2B"]
Level2 == [winter |-> "3A", summer |-> "1B", autumn |-> None, spring |-> None]

Image1 == [title |-> "north", url |-> "u1"]
Image2 == [title |-> "south", url |-> "u2"]

\* lists of at most MaxImages images from S
ImageLists(S) == UNION {[1..n -> S] : n \in 0..MaxImages}

\* MountainPassCreate.model_dump(): every key present, unset Optional ones None
CreateData(user, level, imgs) ==
    [beautyTitle |-> None, title |-> "t1", other_titles |-> None, connect |-> None,
     user |-> user, coords |-> Coords1, level |-> level, images |-> imgs]

\* a dict with one more key
With(d, k, v) == [x \in DOMAIN d \cup {k} |-> IF x = k THEN v ELSE d[x]]

Statuses == {"new", "pending", "accepted", "rejected"}

CreatePoints == {"autocommit", "select_user", "insert_user", "insert_pass",
                 "levels", "images", "commit"}
ReadPoints == {"select_pass", "select_levels", "select_images"}

-----------------------------------------------------------------------------
(* Spec: creation under every failure, few other inputs *)

\* four identities, and the first of them again under another family name
CreateUsers ==
    {User(e, p, "f1", "n1", None) : e \in Emails, p \in Phones}
    \cup {User("a@x", "+1", "f2", "n1", None)}

\* an update that writes the values create wrote
SameData ==
    [beautyTitle |-> None, title |-> "t1", other_titles |-> None, connect |-> None,
     coords |-> Coords1]

PCreate ==
    [creates  |-> {CreateData(u, l, i) :
                      u \in CreateUsers,
                      l \in {NoneObj, Some(Level1)},
                      i \in {NoneObj, Some(<<Image1>>)}}
                  \cup {With(CreateData(User("a@x", "+1", "f1", "n1", None),
                                        Some(Level1), Some(<<Image1>>)),
                             "status", "accepted")},
     updates  |-> {SameData, With(SameData, "user", User("a@x", "+1", "f2", "n1", None))},
     emails   |-> {"a@x"},
     times    |-> {1},
     faults   |-> Errors(CreatePoints) \cup Losses({"insert_pass", "commit", "select_pass"}),
     statuses |-> {"pending"}]

Next == Step(PCreate)

Spec == Init /\ [][Next]_vars

-----------------------------------------------------------------------------
(* SpecGuard: the two checks of update (status, protected submitter        *)
(* fields) on passes of every status, under every submitter input          *)

UserA == User("a@x", "+1", "f1", "n1", None)
UserB == User("b@x", "+2", "f2", "n2", "o1")

\* User.model_dump(exclude_unset=True) without the optional key
WithoutOtc(u) == [k \in {"email", "phone", "fam", "name"} |-> u[k]]

UpdateUsers ==
    {User(e, p, f, n, o) : e \in Emails, p \in Phones, f \in {"f1", "f2"},
                           n \in {"n1", "n2"}, o \in {"", "o1"}}
    \cup {UserA, WithoutOtc(UserA), WithoutOtc(UserB)}

PGuard ==
    [creates  |-> {CreateData(u, Some(Level1), Some(<<Image1>>)) : u \in {UserA, UserB}},
     updates  |-> {SameData, [title |-> "t2"], With(SameData, "level", NoneObj)}
                  \cup {With(SameData, "user", u) : u \in UpdateUsers},
     emails   |-> {"a@x"},
     times    |-> {1},
     faults   |-> Errors({"select_pass", "autocommit", "select_user"}),
     statuses |-> Statuses]

NextGuard == Step(PGuard)

SpecGuard == Init /\ [][NextGuard]_vars

-----------------------------------------------------------------------------
(* SpecReplace: updates that carry ratings and images *)

\* Level.model_dump(exclude_unset=True): only the seasons given; "" is a grade
\* only a direct caller of the repository can pass
Level3 == [winter |-> "", summer |-> None, spring |-> "1B"]
EmptyDict == [k \in {} |-> None]

PReplace ==
    [creates  |-> {CreateData(UserA, Some(Level1), Some(<<Image1>>))},
     updates  |-> {SameData}
                  \cup {With(SameData, "level", l) : l \in {NoneObj, Some(Level3)}}
                  \cup {With(SameData, "images", i) :
                          i \in {NoneObj} \cup {Some(x) : x \in ImageLists({Image2})}}
                  \cup {With(With(SameData, "level", Some(Level3)), "images", Some(i)) :
                          i \in ImageLists({Image2})},
     emails   |-> {"a@x"},
     times    |-> {1},
     faults   |-> Errors({"update_pass", "delete_levels", "levels", "delete_images",
                          "images", "commit"})]

\* every pass stays "new": no moderation here
NextReplace == Serve(PReplace)

SpecReplace == Init /\ [][NextReplace]_vars

-----------------------------------------------------------------------------
(* SpecFields: updates of the title, coordinates and decorative fields *)

Decorated(d) ==
    [d EXCEPT !["beautyTitle"] = "b1", !["other_titles"] = "o1", !["connect"] = "k1"]

NewFields == [title |-> "t2", coords |-> Coords2]
NewDecor == [beautyTitle |-> "b2", other_titles |-> "o2", connect |-> "k2"]

\* the dict with the keys of both (b's value where both have the key)
Merge(a, b) == [k \in DOMAIN a \cup DOMAIN b |-> IF k \in DOMAIN b THEN b[k] ELSE a[k]]

FieldUpdates ==
    LET decor  == {EmptyDict, NewDecor, [beautyTitle |-> None]}
        user   == {EmptyDict} \cup {[user |-> u] : u \in {UserA, WithoutOtc(UserA),
                                                        User("a@x", "+1", "f1", "n1", "")}}
        level  == {EmptyDict, [level |-> NoneObj]}
    IN  {Merge(Merge(Merge(NewFields, x), u), l) : x \in decor, u \in user, l \in level}
        \cup {[title |-> "t2"], [coords |-> Coords2], [beautyTitle |-> "b2"]}

PFields ==
    [creates  |-> {CreateData(UserA, Some(Level1), Some(<<Image1>>)),
                   Decorated(CreateData(UserA, Some(Level1), Some(<<Image1>>)))},
     updates  |-> FieldUpdates,
     emails   |-> {"a@x"},
     times    |-> {1},
     faults   |-> Errors({"autocommit", "update_pass", "commit"}) \cup Losses({"commit"}),
     statuses |-> {"pending"}]

NextFields == Step(PFields)

SpecFields == Init /\ [][NextFields]_vars

-----------------------------------------------------------------------------
(* SpecFrame: updates that pass or fail each check and each statement,     *)
(* with other passes stored                                                *)

PFrame ==
    [creates  |-> {CreateData(UserA, Some(Level1), Some(<<Image1>>))},
     updates  |-> {NewFields, [title |-> "t2"],
                   Merge(NewFields, [level |-> Some(Level3), images |-> Some(<<Image2>>)]),
                   With(NewFields, "level", NoneObj),
                   With(NewFields, "user", UserA), With(NewFields, "user", UserB)},
     emails   |-> {"a@x"},
     times    |-> {1},
     faults   |-> Errors({"select_pass", "update_pass", "levels", "images", "commit"})
                  \cup Losses({"commit"}),
     statuses |-> {"pending"}]

NextFrame == Step(PFrame)

SpecFrame == Init /\ [][NextFrame]_vars

-----------------------------------------------------------------------------
(* SpecManager: the connection manager called on its own and by the        *)
(* repository, with connections that die under a statement                 *)

PManager ==
    [creates  |-> {CreateData(UserA, Some(Level1), Some(<<Image1>>))},
     updates  |-> {NewFields},
     emails   |-> {"a@x"},
     times    |-> {1},
     faults   |-> Losses({"insert_pass", "select_pass", "commit"}),
     statuses |-> {"pending"}]

NextManager == Step(PManager) \/ GetConnection \/ CloseConnection

SpecManager == Init /\ [][NextManager]_vars

-----------------------------------------------------------------------------
(* SpecList: passes of several submitters created at several times *)

\* a new email with the phone of UserA
UserB1 == User("b@x", "+1", "f2", "n2", None)

PList ==
    [creates  |-> {CreateData(u, Some(Level1), Some(<<Image1>>)) : u \in {UserA, UserB, UserB1}},
     updates  |-> {SameData},
     emails   |-> {"a@x", "b@x", "c@x"},
     times    |-> 1..MaxTime,
     faults   |-> Errors(ReadPoints) \cup Losses({"select_pass"}),
     statuses |-> {"pending"}]

NextList == Step(PList)

SpecList == Init /\ [][NextList]_vars

-----------------------------------------------------------------------------
(* Steps of one handler, for the properties below *)

\* the method `op` runs from call to return (or raise) in this step
Handles(op) == pc = "called" /\ pc' = "done" /\ request.op = op

CreateSucceeded(res) == res.exc = "" /\ ~IsNone(res.ret)

\* the submitter the create request carries
ReqUser == request.pass_data["user"]

LastPass(rows) == rows[Len(rows)]

-----------------------------------------------------------------------------
(* C3: create is atomic.  A create that met a failing step returns no id,  *)
(* and a create that returns no id leaves the four tables exactly as they  *)
(* were: no row written before the failure is visible afterwards.          *)

C3_CreateAtomic ==
    [][Handles("create") =>
          /\ (fault' # NoFault => ~CreateSucceeded(result'))
          /\ (~CreateSucceeded(result') => tables' = tables)]_vars

\* a create failed at commit, after the submitter, pass, rating and image
\* inserts had all been executed
C3_Witness ==
    /\ pc = "done" /\ request.op = "create"
    /\ fault.at = "commit"
    /\ IsNone(result.ret)
    /\ UserMatches(users, ReqUser) = {}
    /\ ~IsNone(request.pass_data["level"]) /\ ~IsNone(request.pass_data["images"])

(* C4 as stated: a successful create whose email no stored submitter has   *)
(* adds exactly one submitter row and one pass row linked to it.           *)

C4_EmailNew ==
    [][(/\ Handles("create")
        /\ CreateSucceeded(result')
        /\ \A i \in DOMAIN users : users[i].email # ReqUser["email"])
       => /\ Len(users') = Len(users) + 1
          /\ Len(mountain_passes') = Len(mountain_passes) + 1
          /\ LastPass(mountain_passes').user_id = Len(users')]_vars

(* C4 amended: a successful create whose email AND phone no stored         *)
(* submitter has adds exactly one submitter row, carrying the request's    *)
(* submitter fields, and exactly one pass row, which references that row;  *)
(* the rows stored before are kept.                                        *)

C4_EmailAndPhoneNew ==
    [][(/\ Handles("create")
        /\ CreateSucceeded(result')
        /\ \A i \in DOMAIN users : /\ users[i].email # ReqUser["email"]
                                   /\ users[i].phone # ReqUser["phone"])
       => /\ Len(users') = Len(users) + 1
          /\ SubSeq(users', 1, Len(users)) = users
          /\ users'[Len(users')].email = ReqUser["email"]
          /\ users'[Len(users')].phone = ReqUser["phone"]
          /\ users'[Len(users')].fam = ReqUser["fam"]
          /\ Len(mountain_passes') = Len(mountain_passes) + 1
          /\ SubSeq(mountain_passes', 1, Len(mountain_passes)) = mountain_passes
          /\ LastPass(mountain_passes').user_id = Len(users')]_vars

\* a second submitter was stored by the create that just returned its pass
C4_Witness ==
    /\ pc = "done" /\ request.op = "create" /\ CreateSucceeded(result)
    /\ Len(users) = 2
    /\ users[2].email = ReqUser["email"] /\ users[2].phone = ReqUser["phone"]
    /\ \A i \in DOMAIN mountain_passes :
          mountain_passes[i].user_id = 2 <=> i = Val(result.ret)

(* C5: a successful create whose email and phone are those of a stored     *)
(* submitter adds no submitter row, changes none, and links the new pass   *)
(* to that submitter's id; and no two submitter rows ever share an email   *)
(* or a phone.                                                             *)

NoDuplicateSubmitters ==
    \A i, j \in DOMAIN users :
        i # j => users[i].email # users[j].email /\ users[i].phone # users[j].phone

C5_SubmitterReused ==
    /\ []NoDuplicateSubmitters
    /\ [][\A i \in DOMAIN users :
            (/\ Handles("create")
             /\ CreateSucceeded(result')
             /\ users[i].email = ReqUser["email"]
             /\ users[i].phone = ReqUser["phone"])
            => /\ users' = users
               /\ Len(mountain_passes') = Len(mountain_passes) + 1
               /\ LastPass(mountain_passes').user_id = i]_vars

\* the second pass of the one stored submitter was just created, by a
\* request giving the stored email and phone and another family name
C5_Witness ==
    /\ pc = "done" /\ request.op = "create" /\ CreateSucceeded(result)
    /\ Len(users) = 1 /\ Len(mountain_passes) = 2
    /\ users[1].email = ReqUser["email"] /\ users[1].phone = ReqUser["phone"]
    /\ users[1].fam # ReqUser["fam"]
    /\ mountain_passes[2].user_id = 1

(* C6: the pass row a successful create wrote has status "new" whatever    *)
(* the input holds, and the response carries "new" and the id of that row. *)

C6_CreatedAsNew ==
    (pc = "done" /\ request.op = "create" /\ CreateSucceeded(result))
    => /\ Val(result.ret) = Len(mountain_passes)
       /\ mountain_passes[Val(result.ret)].status = "new"
       /\ mountain_passes[Val(result.ret)].title = request.pass_data["title"]
       /\ submit_data(result) = [http |-> 201, id |-> Len(mountain_passes), status |-> "new"]

\* a create whose input dict carries a status of its own succeeded
C6_Witness ==
    /\ pc = "done" /\ request.op = "create" /\ CreateSucceeded(result)
    /\ "status" \in DOMAIN request.pass_data
    /\ request.pass_data["status"] # "new"

(* C9: no repository method lets an exception reach its caller.            *)

C9_NeverRaises == pc = "done" => result.exc = ""

-----------------------------------------------------------------------------
\* the pass an update or read request names, when it is stored
TargetStored == request.pass_id \in DOMAIN mountain_passes
Target == mountain_passes[request.pass_id]

(* C1: update of a stored pass whose status is not "new" changes no row of *)
(* any table, whatever the input; it never answers state 1, and unless the *)
(* call met a persistence failure it answers state 0 with the message that *)
(* names the current status.                                               *)

C1_LockedPassUnchanged ==
    [][(Handles("update") /\ TargetStored /\ Target.status # "new")
       => /\ tables' = tables
          /\ (result'.exc = "" => result'.ret.state = 0)
          /\ (fault' = NoFault =>
                result' = Returned([state |-> 0,
                                    message |-> Message("status", Target.status, <<>>)]))]_vars

\* a rejected pass was just refused an update that carries submitter data
C1_Witness ==
    /\ pc = "done" /\ request.op = "update" /\ TargetStored
    /\ Target.status = "rejected"
    /\ "user" \in DOMAIN request.pass_data
    /\ result.exc = "" /\ result.ret.state = 0
    /\ result.ret.message = Message("status", "rejected", <<>>)

(* C2: update of a "new" pass with submitter data that differs from the    *)
(* stored submitter in some protected field (None counted as "") changes   *)
(* no row of any table and never answers state 1; unless the call met a    *)
(* persistence failure it answers state 0 and lists exactly the differing  *)
(* fields, each once.                                                      *)

C2_Differing(stored, given) ==
    {k \in {"email", "phone", "fam", "name", "otc"} :
        NoneToEmpty(stored[k]) # NoneToEmpty(Get(given, k, None))}

C2_ProtectedFieldsRejected ==
    [][(/\ Handles("update") /\ TargetStored /\ Target.status = "new"
        /\ "user" \in DOMAIN request.pass_data
        /\ C2_Differing(users[Target.user_id], request.pass_data["user"]) # {})
       => /\ tables' = tables
          /\ (result'.exc = "" => result'.ret.state = 0)
          /\ (fault' = NoFault =>
                /\ result'.exc = ""
                /\ result'.ret.message.kind = "protected"
                /\ Range(result'.ret.message.fields) =
                      C2_Differing(users[Target.user_id], request.pass_data["user"])
                /\ Len(result'.ret.message.fields) =
                      Cardinality(C2_Differing(users[Target.user_id],
                                               request.pass_data["user"])))]_vars

\* only the family name differed: the stored patronymic is NULL, the given one ""
C2_Witness ==
    /\ pc = "done" /\ request.op = "update" /\ TargetStored /\ Target.status = "new"
    /\ "user" \in DOMAIN request.pass_data
    /\ users[Target.user_id].otc = None
    /\ Get(request.pass_data["user"], "otc", None) = ""
    /\ result.exc = "" /\ result.ret.state = 0
    /\ result.ret.message = Message("protected", "", <<"fam">>)

-----------------------------------------------------------------------------
UpdateSucceeded(res) == res.exc = "" /\ res.ret.state = 1

RatingsOf(rows, pass_id) == {r \in rows : r.pass_id = pass_id}
RatingsOfOthers(rows, pass_id) == {r \in rows : r.pass_id # pass_id}
ImagesOfOthers(rows, pass_id) == SelectSeq(rows, LAMBDA r : r.pass_id # pass_id)

\* the season-to-grade pairs of a supplied dict whose grade is not empty
C7_Supplied(pass_id, level_data) ==
    {[pass_id |-> pass_id, season |-> s, level |-> level_data[s]] :
        s \in {k \in DOMAIN level_data : level_data[k] # None /\ level_data[k] # ""}}

(* C7: after a successful update that supplies ratings, the ratings stored *)
(* for the pass are exactly the supplied pairs whose grade is not empty;   *)
(* after one that supplies images, the images stored for the pass are      *)
(* exactly the supplied list, in its order; the ratings and images of the  *)
(* other passes are as before.                                             *)

C7_FullReplace ==
    [][(Handles("update") /\ UpdateSucceeded(result'))
       => /\ "level" \in DOMAIN request.pass_data =>
                RatingsOf(difficulty_levels', request.pass_id)
                   = C7_Supplied(request.pass_id, Val(request.pass_data["level"]))
          /\ "images" \in DOMAIN request.pass_data =>
                ImagesOf(images', request.pass_id) = Val(request.pass_data["images"])
          /\ RatingsOfOthers(difficulty_levels', request.pass_id)
                = RatingsOfOthers(difficulty_levels, request.pass_id)
          /\ ImagesOfOthers(images', request.pass_id)
                = ImagesOfOthers(images, request.pass_id)]_vars

\* pass 1 had its two ratings and its image replaced by one rating and an
\* empty image list, while pass 2 keeps the ratings and image it was created with
C7_Witness ==
    /\ pc = "done" /\ request.op = "update" /\ UpdateSucceeded(result)
    /\ request.pass_id = 1 /\ Len(mountain_passes) = 2
    /\ "level" \in DOMAIN request.pass_data /\ "images" \in DOMAIN request.pass_data
    /\ Val(request.pass_data["images"]) = <<>>
    /\ RatingsOf(difficulty_levels, 1) = {[pass_id |-> 1, season |-> "spring", level |-> "1B"]}
    /\ ImagesOf(images, 1) = <<>>
    /\ Cardinality(RatingsOf(difficulty_levels, 2)) = 2
    /\ ImagesOf(images, 2) = <<Image1>>

(* C8: a list call changes no row; unless it met a persistence failure it  *)
(* returns the denormalized records of exactly the passes whose submitter  *)
(* row has the email, each once, none before one with a later add_time     *)
(* (so the empty list when there is no such pass).                         *)

C8_Owned ==
    {i \in DOMAIN mountain_passes : users[mountain_passes[i].user_id].email = request.email}

C8_ListByEmail ==
    [][Handles("list")
       => /\ tables' = tables
          /\ fault' = NoFault =>
               /\ result'.exc = ""
               /\ {result'.ret[i].id : i \in DOMAIN result'.ret} = C8_Owned
               /\ Len(result'.ret) = Cardinality(C8_Owned)
               /\ \A i, j \in DOMAIN result'.ret :
                     i < j => mountain_passes[result'.ret[i].id].add_time
                                 >= mountain_passes[result'.ret[j].id].add_time
               /\ \A i \in DOMAIN result'.ret :
                     result'.ret[i] = PassInfo(DB, result'.ret[i].id)]_vars

\* two passes of the submitter were listed, the later-created (pass 2) first
C8_Witness ==
    /\ pc = "done" /\ request.op = "list" /\ result.exc = ""
    /\ Len(result.ret) = 2
    /\ result.ret[1].id = 2 /\ result.ret[2].id = 1
    /\ result.ret[1].add_time > result.ret[2].add_time

(* C10: update of a "new" pass whose input carries the stored submitter    *)
(* unchanged, a title and coordinates answers state 1 (when it met no      *)
(* persistence failure) and stores the supplied title, coordinates and     *)
(* decorative fields.                                                      *)

C10_Decor == {"beautyTitle", "other_titles", "connect"}
C10_Column(k) == IF k = "beautyTitle" THEN "beauty_title" ELSE k

C10_SameSubmitterUpdateSucceeds ==
    [][(/\ Handles("update") /\ TargetStored /\ Target.status = "new"
        /\ {"user", "title", "coords"} \subseteq DOMAIN request.pass_data
        /\ C2_Differing(users[Target.user_id], request.pass_data["user"]) = {}
        /\ fault' = NoFault)
       => /\ UpdateSucceeded(result')
          /\ Target'.title = request.pass_data["title"]
          /\ Target'.latitude = request.pass_data["coords"]["latitude"]
          /\ Target'.longitude = request.pass_data["coords"]["longitude"]
          /\ Target'.height = request.pass_data["coords"]["height"]
          /\ \A k \in C10_Decor \cap DOMAIN request.pass_data :
                Target'[C10_Column(k)] = request.pass_data[k]]_vars

-----------------------------------------------------------------------------
(* C11: a submitter row, once stored, keeps its id and its five fields and *)
(* is never removed, whatever create, read, update or list call is served; *)
(* and every stored pass references a stored submitter row.                *)

C11_SubmittersImmutable ==
    /\ [](\A i \in DOMAIN mountain_passes : mountain_passes[i].user_id \in DOMAIN users)
    /\ [][/\ Len(users') >= Len(users)
          /\ SubSeq(users', 1, Len(users)) = users]_vars

\* an update that carries another family name for the stored submitter was
\* answered, and the submitter, who owns two passes, has the name it was stored with
C11_Witness ==
    /\ pc = "done" /\ request.op = "update" /\ TargetStored
    /\ "user" \in DOMAIN request.pass_data
    /\ request.pass_data["user"]["email"] = users[Target.user_id].email
    /\ request.pass_data["user"]["fam"] = "f2"
    /\ users[Target.user_id].fam = "f1"
    /\ Len(users) = 1 /\ Len(mountain_passes) = 2

-----------------------------------------------------------------------------
(* C12: a read changes no row.  Unless it met a persistence failure, a     *)
(* read of an id no pass has returns None (404 at the endpoint), and a     *)
(* read of a stored pass returns the pass's own columns, the five fields   *)
(* of the submitter row it references, one grade per season it has a       *)
(* rating for, and its images in the order they were stored.               *)

C12_ImageRowsOf(pass_id) == {i \in DOMAIN images : images[i].pass_id = pass_id}

C12_Record(rec, pass_id) ==
    LET mp == mountain_passes[pass_id]
        u  == users[mp.user_id]
    IN  /\ rec.id = pass_id
        /\ rec.title = mp.title /\ rec.beauty_title = mp.beauty_title
        /\ rec.other_titles = mp.other_titles /\ rec.connect = mp.connect
        /\ rec.status = mp.status /\ rec.add_time = mp.add_time
        /\ rec.coords = [latitude |-> mp.latitude, longitude |-> mp.longitude,
                         height |-> mp.height]
        /\ rec.user = [email |-> u.email, phone |-> u.phone, fam |-> u.fam,
                       name |-> u.name, otc |-> u.otc]
        /\ DOMAIN rec.level = {r.season : r \in RatingsOf(difficulty_levels, pass_id)}
        /\ \A r \in RatingsOf(difficulty_levels, pass_id) : rec.level[r.season] = r.level
        /\ Len(rec.images) = Cardinality(C12_ImageRowsOf(pass_id))
        /\ \A i \in C12_ImageRowsOf(pass_id) :
              rec.images[Cardinality({j \in C12_ImageRowsOf(pass_id) : j <= i})]
                 = [title |-> images[i].title, url |-> images[i].img_url]

C12_Read ==
    [][Handles("read")
       => /\ tables' = tables
          /\ fault' = NoFault =>
               /\ result'.exc = ""
               /\ ~TargetStored => /\ IsNone(result'.ret)
                                   /\ get_mountain_pass(result').http = 404
               /\ TargetStored => /\ ~IsNone(result'.ret)
                                  /\ C12_Record(Val(result'.ret), request.pass_id)
                                  /\ get_mountain_pass(result') =
                                        [http |-> 200, body |-> result'.ret]]_vars

\* with two passes stored, the read of id 3 returned None
C12_Witness ==
    /\ pc = "done" /\ request.op = "read" /\ fault = NoFault
    /\ Len(mountain_passes) = 2 /\ request.pass_id = 3
    /\ result = Returned(NoneObj)
    /\ get_mountain_pass(result).http = 404

-----------------------------------------------------------------------------
(* C13: an update call, answered with state 1, state 0 or an exception,    *)
(* leaves the target pass's status, submitter reference and creation time  *)
(* as they were and the pass under its id; the rows of every other pass,   *)
(* and the ratings and images of every other pass, are as before; an       *)
(* update of an id no pass has changes nothing.                            *)

C13_UpdateFrame ==
    [][Handles("update")
       => /\ Len(mountain_passes') = Len(mountain_passes)
          /\ \A i \in DOMAIN mountain_passes :
                IF i = request.pass_id
                THEN /\ mountain_passes'[i].status = mountain_passes[i].status
                     /\ mountain_passes'[i].user_id = mountain_passes[i].user_id
                     /\ mountain_passes'[i].add_time = mountain_passes[i].add_time
                ELSE mountain_passes'[i] = mountain_passes[i]
          /\ RatingsOfOthers(difficulty_levels', request.pass_id)
                = RatingsOfOthers(difficulty_levels, request.pass_id)
          /\ ImagesOfOthers(images', request.pass_id)
                = ImagesOfOthers(images, request.pass_id)
          /\ ~TargetStored => tables' = tables]_vars

\* pass 1 got another title, rating and image by the update just answered;
\* pass 2 has the title, ratings and image it was created with
C13_Witness ==
    /\ pc = "done" /\ request.op = "update" /\ UpdateSucceeded(result)
    /\ request.pass_id = 1 /\ Len(mountain_passes) = 2
    /\ mountain_passes[1].title = "t2" /\ mountain_passes[1].status = "new"
    /\ mountain_passes[1].add_time = 1
    /\ ImagesOf(images, 1) = <<Image2>>
    /\ mountain_passes[2].title = "t1"
    /\ Cardinality(RatingsOf(difficulty_levels, 2)) = 2
    /\ ImagesOf(images, 2) = <<Image1>>

-----------------------------------------------------------------------------
(* C14: get_connection, when it returns, returns an open connection, which *)
(* the manager holds; when the held connection is open it returns that one *)
(* and connects to nothing; when none is held or the held one is closed it *)
(* connects and holds the new connection, or, connecting having failed,    *)
(* raises DatabaseConnectionError and holds what it held.  After           *)
(* close_connection on an open held connection none is held, and           *)
(* get_connection then connects anew.                                      *)

C14_Manages(op) == pc = "idle" /\ pc' = "done" /\ request'.op = op

C14_ConnectionManager ==
    [][/\ C14_Manages("get_connection") =>
             /\ result'.exc \in {"", "DatabaseConnectionError"}
             /\ result'.exc = "" =>
                   /\ Val(result'.ret).connection = "open"
                   /\ connection' = "open"
                   /\ Val(result'.ret).opened <=> connection # "open"
             /\ connection = "open" => result'.exc = "" /\ connection' = connection
             /\ result'.exc = "DatabaseConnectionError" =>
                   connection # "open" /\ connection' = connection
       /\ (C14_Manages("close_connection") /\ connection = "open") =>
             connection' = "none"]_vars

\* the connection closed by close_connection was replaced by a new one
\* on the next get_connection
C14_Witness ==
    /\ pc = "done" /\ request.op = "get_connection"
    /\ result.exc = "" /\ Val(result.ret).opened
    /\ connection = "open"
    /\ Len(mountain_passes) >= 1

-----------------------------------------------------------------------------
(* C15: when a create has returned an id, a list call with the email the   *)
(* create request carried returns the record of that id.                   *)

\* the ids a list call with this email can return now
C15_Listed(email) ==
    UNION {{rec.id : rec \in Range(get_passes_by_user_email(DB, email, order, NoFault).ret)} :
              order \in Orders(DB, email)}

C15_CreatedPassListed ==
    (pc = "done" /\ request.op = "create" /\ CreateSucceeded(result))
    => Val(result.ret) \in C15_Listed(ReqUser["email"])

-----------------------------------------------------------------------------
(* C16: an update call on a stored pass in status "new", whatever it       *)
(* answers, leaves every column whose key the input dict does not have     *)
(* (beautyTitle, other_titles, connect, title; latitude, longitude and     *)
(* height for coords) as it was stored.                                    *)

C16_Columns(k) ==
    IF k = "coords" THEN {"latitude", "longitude", "height"} ELSE {C10_Column(k)}

C16_Keys == {"beautyTitle", "other_titles", "connect", "title", "coords"}

C16_UnsuppliedFieldsKept ==
    [][(Handles("update") /\ TargetStored /\ Target.status = "new")
       => \A k \in C16_Keys \ DOMAIN request.pass_data :
             \A c \in C16_Columns(k) : Target'[c] = Target[c]]_vars

====
